---- MODULE Spec2Model ----
(***************************************************************************)
(* Workflow engine of UNS Rirekisho Pro (backend/app/api): candidates,     *)
(* applications, joining notices and the employees / assignments created   *)
(* by approving a notice.                                                   *)
(*                                                                          *)
(* The store variables hold the COMMITTED rows of each table.  Every       *)
(* request runs in its own SQLAlchemy session (core/database.py get_db):   *)
(* the rows it has loaded and the changes it has not committed yet are its *)
(* local state.  A handler is written as its sequence of steps, one per    *)
(* `await db.execute(...)`, `await db.flush()` and `await db.commit()`;    *)
(* a step maps a session configuration [pc, loc, db] to the next one.      *)
(* Spec serves requests one after the other (a handler runs to its         *)
(* response in one action); SpecRace and SpecApprove interleave the steps  *)
(* of concurrent requests at these await points.                            *)
(***************************************************************************)
EXTENDS Integers, Sequences, FiniteSets, TLC

\* ---- bounds of the model -------------------------------------------------
MaxCandidates == 1
MaxApplications == 2
MaxNotices == 2
MaxEmployees == 2
MaxApartments == 1
MaxTokens == 3
NumWorkers == 2
NumApprovers == 3

\* ---- enumerations (models/models.py) --------------------------------------
CandidateStatus == {"registered", "presented", "accepted", "rejected", "processing", "hired"}

ApplicationStatus == {"pending", "accepted", "rejected"}

JoiningNoticeStatus == {"draft", "pending", "approved", "rejected"}

EmploymentType == {"haken", "ukeoi"}

HousingType == {"shataku", "own", "rental", "other"}

\* NULL of a nullable column / None of an Optional request field
None == "None"

\* id of the authenticated user (current_user.id); 0 is NULL for id columns
current_user == 1

VARIABLES candidates, applications, notices, employees,
          haken_assignments, ukeoi_assignments, apartments,
          users, refresh_tokens, pc, loc

store == <<candidates, applications, notices, employees,
           haken_assignments, ukeoi_assignments, apartments, users, refresh_tokens>>

vars == <<candidates, applications, notices, employees,
          haken_assignments, ukeoi_assignments, apartments,
          users, refresh_tokens, pc, loc>>

\* the committed store as one value
DB == [candidates |-> candidates, applications |-> applications,
       notices |-> notices, employees |-> employees,
       haken_assignments |-> haken_assignments,
       ukeoi_assignments |-> ukeoi_assignments, apartments |-> apartments,
       users |-> users, refresh_tokens |-> refresh_tokens]

EmptyDB == [candidates |-> << >>, applications |-> << >>, notices |-> << >>,
            employees |-> << >>, haken_assignments |-> << >>,
            ukeoi_assignments |-> << >>, apartments |-> << >>,
            users |-> << >>, refresh_tokens |-> << >>]

Procs == 1..(IF NumWorkers > NumApprovers THEN NumWorkers ELSE NumApprovers)

Workers == 1..NumWorkers

Approvers == 1..NumApprovers

\* ---- the session of one request ---------------------------------------------
\* op: the handler; id: the path / body id; data: the request body;
\* obj: the primary ORM row the session loaded; cand: the Candidate row it
\* loaded; num: next_emp_number; result: the response once the request has
\* completed; detail: the detail of the HTTPException of a refused submit;
\* assignment: the assignment row loaded with an Employee (selectinload);
\* user: the id of the User row an authentication request loaded.
IdleLoc == [op |-> "none", id |-> 0, data |-> None, obj |-> None, cand |-> None,
            num |-> 0, result |-> "none", detail |-> None, assignment |-> None,
            user |-> 0]

Start(o, i, d) == [IdleLoc EXCEPT !.op = o, !.id = i, !.data = d]

Response(l, r) == [IdleLoc EXCEPT !.op = l.op, !.id = l.id, !.result = r]

\* get_db: `except Exception: await session.rollback(); raise` -- whatever
\* the session has added, changed or flushed is discarded; the committed
\* store is what it was.
Rollback(db, l) == db

\* an exception leaves the handler: get_db rolls back and the request ends
\* with the error response r
Raise(c, r) == [pc |-> "resp", loc |-> Response(c.loc, r), db |-> Rollback(c.db, c.loc)]

\* `await db.commit()` of the store d, then the response
Committed(c, d) == [pc |-> "resp", loc |-> Response(c.loc, "ok"), db |-> d]

Goto(c, label) == [c EXCEPT !.pc = label]

Exists(table, i) == i \in 1..Len(table)

\* scalar_one_or_none() found no row
NoRow == [absent |-> TRUE]

\* ORM unit of work: an attribute is written by the UPDATE only when the
\* value set on the object differs from the value that was loaded.
Dirty(loaded, new) == new # loaded

\* the row after the UPDATE of a session that loaded `loaded` and set the
\* fields of `patch` on it: only the attributes whose value changed are
\* written, every other column keeps its committed value
ApplyPatch(cur, loaded, patch) ==
    [f \in DOMAIN cur |-> IF f \in DOMAIN patch /\ Dirty(loaded[f], patch[f])
                          THEN patch[f] ELSE cur[f]]

\* ---- candidates (api/candidates.py) ---------------------------------------
create_candidate(c) ==
    Committed(c, [c.db EXCEPT !.candidates = Append(@, [status |-> "registered"])])

\* CandidateUpdate bodies: the fields that were sent (exclude_unset); the
\* workflow reads only status
CandidateUpdateInputs == {[notes |-> "memo"], [status |-> "accepted"], [status |-> "hired"]}

update_candidate(c) ==
    IF ~Exists(c.db.candidates, c.loc.id)
    THEN Raise(c, "NotFound")
    ELSE [Goto(c, "update_candidate_commit") EXCEPT !.loc.cand = c.db.candidates[c.loc.id]]

update_candidate_commit(c) ==
    Committed(c, [c.db EXCEPT !.candidates[c.loc.id] =
                     ApplyPatch(@, c.loc.cand, c.loc.data)])

\* ---- company apartments (api/apartments.py) ---------------------------------
\* CompanyApartmentCreate bodies: a room for one with a vacancy, and one
\* that is full
ApartmentInputs == {[capacity |-> 1, current_occupants |-> 0],
                    [capacity |-> 1, current_occupants |-> 1]}

create_apartment(c) ==
    Committed(c, [c.db EXCEPT !.apartments = Append(@, c.loc.data)])

\* ---- applications (api/applications.py) ------------------------------------
\* present without the lookup of the candidate
create_application_no_lookup(c) ==
    IF ~Exists(c.db.candidates, c.loc.id)
    THEN Committed(c, [c.db EXCEPT
             !.applications = Append(@, [candidate_id |-> c.loc.id, status |-> "pending",
                                         result_at |-> FALSE, result_notes |-> None])])
    ELSE [Goto(c, "create_application_commit") EXCEPT !.loc.cand = c.db.candidates[c.loc.id]]

\* present refused while the candidate has a Pending application
create_application_single_pending(c) ==
    IF ~Exists(c.db.candidates, c.loc.id)
    THEN Raise(c, "NotFound")
    ELSE IF \E a \in 1..Len(c.db.applications) :
                /\ c.db.applications[a].candidate_id = c.loc.id
                /\ c.db.applications[a].status = "pending"
    THEN Raise(c, "InvalidState")
    ELSE [Goto(c, "create_application_commit") EXCEPT !.loc.cand = c.db.candidates[c.loc.id]]

create_application(c) ==
    IF ~Exists(c.db.candidates, c.loc.id)
    THEN Raise(c, "NotFound")
    ELSE [Goto(c, "create_application_commit") EXCEPT !.loc.cand = c.db.candidates[c.loc.id]]

\* the commit of a new application that leaves the candidate's status alone
create_application_commit_keeps_status(c) ==
    Committed(c, [c.db EXCEPT
        !.applications = Append(@, [candidate_id |-> c.loc.id, status |-> "pending",
                                    result_at |-> FALSE, result_notes |-> None])])

create_application_commit(c) ==
    Committed(c, [c.db EXCEPT
        !.applications = Append(@, [candidate_id |-> c.loc.id, status |-> "pending",
                                    result_at |-> FALSE, result_notes |-> None]),
        !.candidates[c.loc.id] = ApplyPatch(@, c.loc.cand, [status |-> "presented"])])

\* ApplicationUpdate bodies: status Optional[ApplicationStatus],
\* result_notes Optional[str]
ResultInputs == {[status |-> "accepted", result_notes |-> "good fit"],
                 [status |-> "rejected", result_notes |-> None],
                 [status |-> "pending", result_notes |-> None],
                 [status |-> None, result_notes |-> None]}

record_result(c) ==
    IF ~Exists(c.db.applications, c.loc.id)
    THEN Raise(c, "NotFound")
    ELSE IF c.db.applications[c.loc.id].status # "pending"
    THEN Raise(c, "InvalidState")
    ELSE [Goto(c, "record_result_cand") EXCEPT !.loc.obj = c.db.applications[c.loc.id]]

record_result_cand(c) ==
    [Goto(c, "record_result_commit") EXCEPT !.loc.cand =
        IF Exists(c.db.candidates, c.loc.obj.candidate_id)
        THEN c.db.candidates[c.loc.obj.candidate_id] ELSE NoRow]

\* what record_result sets on the loaded Candidate for an outcome
ResultCandidatePatch(outcome) ==
    IF outcome = "accepted" THEN [status |-> "accepted"]
    ELSE IF outcome = "rejected" THEN [status |-> "rejected"]
    ELSE [unchanged |-> TRUE]

\* `return application` is serialised as ApplicationResponse, whose status is
\* a required ApplicationStatus: a row committed with status NULL fails the
\* response validation after the commit
record_result_commit(c) ==
    LET l == c.loc
        r == Committed(c, [c.db EXCEPT
                !.applications[l.id] = ApplyPatch(@, l.obj,
                    [status |-> l.data.status, result_at |-> TRUE,
                     result_notes |-> l.data.result_notes]),
                !.candidates = IF l.cand = NoRow THEN @
                               ELSE [@ EXCEPT ![l.obj.candidate_id] =
                                       ApplyPatch(@, l.cand, ResultCandidatePatch(l.data.status))]])
    IN IF l.data.status = None
       THEN [r EXCEPT !.loc.result = "ResponseValidationError"]
       ELSE r

\* ---- joining notices (api/joining_notices.py) -------------------------------
\* the editable columns of a notice the workflow reads (JoiningNoticeBase)
ContentFields == {"employment_type", "full_name", "housing_type", "apartment_id",
                  "bank_account_name", "account_number"}

Content(et, name, housing, apt, bank, acct) ==
    [employment_type |-> et, full_name |-> name, housing_type |-> housing,
     apartment_id |-> apt, bank_account_name |-> bank, account_number |-> acct]

\* JoiningNoticeCreate bodies: a complete Haken notice with rental housing
\* and an Ukeoi notice without its banking fields
NoticeInputs == {Content("haken", "Taro", "rental", 0, None, None),
                 Content("ukeoi", "Taro", "own", 0, None, None)}

\* JoiningNoticeCreate bodies with company housing: in apartment 1, and
\* without an apartment
HousingInputs == {Content("haken", "Taro", "shataku", 1, None, None),
                  Content("haken", "Taro", "shataku", 0, None, None)}

\* JoiningNoticeUpdate bodies: the fields that were sent (exclude_unset)
UpdateInputs == {[bank_account_name |-> "Taro", account_number |-> "1234567"],
                 [bank_account_name |-> None]}

create_joining_notice(c) ==
    IF ~Exists(c.db.candidates, c.loc.id)
    THEN Raise(c, "NotFound")
    ELSE IF c.db.candidates[c.loc.id].status # "accepted"
    THEN Raise(c, "PreconditionFailed")
    ELSE [Goto(c, IF c.loc.data.application_id # 0 THEN "create_joining_notice_app"
                  ELSE "create_joining_notice_commit")
            EXCEPT !.loc.cand = c.db.candidates[c.loc.id]]

\* the application check without the test of its status
create_joining_notice_app_any_status(c) ==
    IF ~Exists(c.db.applications, c.loc.data.application_id)
    THEN Raise(c, "PreconditionFailed")
    ELSE Goto(c, "create_joining_notice_commit")

create_joining_notice_app(c) ==
    LET a == c.loc.data.application_id IN
    IF ~Exists(c.db.applications, a) \/ c.db.applications[a].status # "accepted"
    THEN Raise(c, "PreconditionFailed")
    ELSE Goto(c, "create_joining_notice_commit")

NewNotice(l) ==
    [f \in ContentFields |-> l.data.content[f]] @@
    [candidate_id |-> l.id, application_id |-> l.data.application_id,
     status |-> "draft", submitted_at |-> FALSE, approved_at |-> FALSE,
     approved_by |-> 0, rejection_reason |-> None]

\* joining_notices.apartment_id REFERENCES company_apartments(id), enforced
\* (PRAGMA foreign_keys=ON)
ForeignKeyViolation(apts, apartment_id) ==
    apartment_id # 0 /\ ~Exists(apts, apartment_id)

create_joining_notice_commit(c) ==
    IF ForeignKeyViolation(c.db.apartments, c.loc.data.content.apartment_id)
    THEN Raise(c, "IntegrityError")
    ELSE Committed(c, [c.db EXCEPT
        !.notices = Append(@, NewNotice(c.loc)),
        !.candidates[c.loc.id] = ApplyPatch(@, c.loc.cand, [status |-> "processing"])])

\* load the notice of the path id: 404 when it is absent, 400 when its
\* status is not the one the transition requires
LoadNotice(c, required, next) ==
    IF ~Exists(c.db.notices, c.loc.id)
    THEN Raise(c, "NotFound")
    ELSE IF c.db.notices[c.loc.id].status # required
    THEN Raise(c, "InvalidState")
    ELSE [Goto(c, next) EXCEPT !.loc.obj = c.db.notices[c.loc.id]]

update_joining_notice(c) == LoadNotice(c, "draft", "update_joining_notice_commit")

update_joining_notice_commit(c) ==
    Committed(c, [c.db EXCEPT !.notices[c.loc.id] = ApplyPatch(@, c.loc.obj, c.loc.data)])

\* Python truthiness of an Optional column: None and "" are falsy strings,
\* None (NULL, written 0) is the falsy id
Missing(v) == v \in {None, ""}

MissingId(v) == v = 0

\* the validation of submit_for_approval: the detail of the 400 it raises,
\* or "ok"
SubmitValidation(n) ==
    IF Missing(n.full_name) \/ Missing(n.employment_type) \/ Missing(n.housing_type)
    THEN "Missing required fields"
    ELSE IF n.housing_type = "shataku" /\ MissingId(n.apartment_id)
    THEN "Apartment is required"
    ELSE IF n.employment_type = "ukeoi"
            /\ (Missing(n.bank_account_name) \/ Missing(n.account_number))
    THEN "Bank information is required"
    ELSE "ok"

\* submit without the check that the notice is a Draft
submit_for_approval_any_status(c) ==
    IF ~Exists(c.db.notices, c.loc.id)
    THEN Raise(c, "NotFound")
    ELSE IF SubmitValidation(c.db.notices[c.loc.id]) # "ok"
    THEN Raise(c, "ValidationFailed")
    ELSE [Goto(c, "submit_for_approval_commit") EXCEPT !.loc.obj = c.db.notices[c.loc.id]]

submit_for_approval(c) ==
    LET r == LoadNotice(c, "draft", "submit_for_approval_commit") IN
    IF r.pc # "resp" /\ SubmitValidation(r.loc.obj) # "ok"
    THEN [Raise(c, "ValidationFailed") EXCEPT !.loc.detail = SubmitValidation(r.loc.obj)]
    ELSE r

submit_for_approval_commit(c) ==
    Committed(c, [c.db EXCEPT !.notices[c.loc.id] =
        ApplyPatch(@, c.loc.obj, [status |-> "pending", submitted_at |-> TRUE])])

reject_joining_notice(c) == LoadNotice(c, "pending", "reject_joining_notice_commit")

\* reject that also sends the candidate back to Accepted
reject_joining_notice_commit_reverting(c) ==
    Committed(c, [c.db EXCEPT
        !.notices[c.loc.id] =
            ApplyPatch(@, c.loc.obj, [status |-> "rejected", rejection_reason |-> c.loc.data,
                                      approved_by |-> current_user]),
        !.candidates[c.loc.obj.candidate_id].status = "accepted"])

reject_joining_notice_commit(c) ==
    Committed(c, [c.db EXCEPT !.notices[c.loc.id] =
        ApplyPatch(@, c.loc.obj, [status |-> "rejected", rejection_reason |-> c.loc.data,
                                  approved_by |-> current_user])])

\* `select(Employee.employee_number).order_by(desc).limit(1)`, None -> 0
MaxEmployeeNumber(emps) ==
    IF Len(emps) = 0 THEN 0
    ELSE CHOOSE n \in {emps[i].employee_number : i \in 1..Len(emps)} :
           \A i \in 1..Len(emps) : emps[i].employee_number <= n

\* the allocator without its `+ 1`
NextEmployeeNumberFromZero(emps) == MaxEmployeeNumber(emps)

NextEmployeeNumber(emps) == MaxEmployeeNumber(emps) + 1

\* Employee.employee_number is `unique=True`: the INSERT of a number that a
\* committed row already has raises IntegrityError
\* the column without its unique index
UniqueViolationUnindexed(emps, n) == FALSE

UniqueViolation(emps, n) == \E i \in 1..Len(emps) : emps[i].employee_number = n

\* approve without the check that the notice is Pending
approve_joining_notice_any_status(c) ==
    IF ~Exists(c.db.notices, c.loc.id)
    THEN Raise(c, "NotFound")
    ELSE [Goto(c, "approve_joining_notice_max") EXCEPT !.loc.obj = c.db.notices[c.loc.id]]

approve_joining_notice(c) == LoadNotice(c, "pending", "approve_joining_notice_max")

approve_joining_notice_max(c) ==
    [Goto(c, "approve_joining_notice_flush") EXCEPT !.loc.num = NextEmployeeNumber(c.db.employees)]

\* db.add(employee); await db.flush(): the INSERT runs inside the session's
\* transaction, which takes the write lock; the row is not visible to other
\* sessions before the commit.
approve_joining_notice_flush(c) ==
    IF UniqueViolation(c.db.employees, c.loc.num)
    THEN Raise(c, "IntegrityError")
    ELSE Goto(c, "approve_joining_notice_cand")

approve_joining_notice_cand(c) ==
    [Goto(c, "approve_joining_notice_commit") EXCEPT !.loc.cand =
        IF Exists(c.db.candidates, c.loc.obj.candidate_id)
        THEN c.db.candidates[c.loc.obj.candidate_id] ELSE NoRow]

NewEmployee(l) ==
    [employee_number |-> l.num, joining_notice_id |-> l.id,
     candidate_id |-> l.obj.candidate_id, employment_type |-> l.obj.employment_type,
     status |-> "zaishokuchu", termination_date |-> None]

NewAssignment(employee_id) ==
    [employee_id |-> employee_id, status |-> "zaishokuchu", end_date |-> None]

\* every employee is given a HakenAssignment
AssignmentVariantHakenOnly(employment_type) == "haken"

\* the variant of the assignment approve builds: `if ... == HAKEN: ... else:`
AssignmentVariant(employment_type) ==
    IF employment_type = "haken" THEN "haken" ELSE "ukeoi"

approve_joining_notice_commit(c) ==
    LET l == c.loc
        employee_id == Len(c.db.employees) + 1
        variant == AssignmentVariant(l.obj.employment_type) IN
    Committed(c, [c.db EXCEPT
        !.employees = Append(@, NewEmployee(l)),
        !.haken_assignments = IF variant = "haken"
                              THEN Append(@, NewAssignment(employee_id)) ELSE @,
        !.ukeoi_assignments = IF variant = "ukeoi"
                              THEN Append(@, NewAssignment(employee_id)) ELSE @,
        !.notices[l.id] = ApplyPatch(@, l.obj,
            [status |-> "approved", approved_at |-> TRUE, approved_by |-> current_user]),
        !.candidates = IF l.cand = NoRow THEN @
                       ELSE [@ EXCEPT ![l.obj.candidate_id] =
                               ApplyPatch(@, l.cand, [status |-> "hired"])]])

\* ---- employees (api/employees.py) ------------------------------------------------
\* EmployeeUpdate bodies: the fields that were sent (exclude_unset); the
\* schema has neither employee_number nor employment_type
EmployeeUpdateInputs == {[status |-> "kyushoku"], [termination_date |-> "2026-03-31"],
                         [status |-> "zaishokuchu", termination_date |-> None]}

update_employee(c) ==
    IF ~Exists(c.db.employees, c.loc.id)
    THEN Raise(c, "NotFound")
    ELSE [Goto(c, "update_employee_commit") EXCEPT !.loc.obj = c.db.employees[c.loc.id]]

update_employee_commit(c) ==
    Committed(c, [c.db EXCEPT !.employees[c.loc.id] = ApplyPatch(@, c.loc.obj, c.loc.data)])

\* the termination_date query parameter: an ISO date, and a string that is
\* not one
TerminationInputs == {"2026-03-31", "tomorrow"}

\* date.fromisoformat: the date, or ValueError
fromisoformat(s) == IF s \in {"2026-03-31"} THEN s ELSE "ValueError"

\* the assignment selectinload found for employee e in `table`
LoadedAssignment(table, e, variant) ==
    LET rows == {a \in 1..Len(table) : table[a].employee_id = e} IN
    IF rows = {} THEN NoRow
    ELSE LET a == CHOOSE x \in rows : TRUE IN
         [variant |-> variant, id |-> a, row |-> table[a]]

\* `if employee.haken_assignment: ... elif employee.ukeoi_assignment: ...`
terminate_employee(c) ==
    IF ~Exists(c.db.employees, c.loc.id)
    THEN Raise(c, "NotFound")
    ELSE LET haken == LoadedAssignment(c.db.haken_assignments, c.loc.id, "haken")
             ukeoi == LoadedAssignment(c.db.ukeoi_assignments, c.loc.id, "ukeoi") IN
         [Goto(c, "terminate_employee_commit") EXCEPT
             !.loc.obj = c.db.employees[c.loc.id],
             !.loc.assignment = IF haken # NoRow THEN haken ELSE ukeoi]

\* the termination that writes the Employee and leaves its assignment alone
terminate_employee_commit_employee_only(c) ==
    LET l == c.loc
        day == fromisoformat(l.data) IN
    IF day = "ValueError"
    THEN Raise(c, "ValueError")
    ELSE Committed(c, [c.db EXCEPT
        !.employees[l.id] = ApplyPatch(@, l.obj, [status |-> "taisha", termination_date |-> day])])

terminate_employee_commit(c) ==
    LET l == c.loc
        day == fromisoformat(l.data)
        asg == l.assignment IN
    IF day = "ValueError"
    THEN Raise(c, "ValueError")
    ELSE Committed(c, [c.db EXCEPT
        !.employees[l.id] = ApplyPatch(@, l.obj, [status |-> "taisha", termination_date |-> day]),
        !.haken_assignments = IF asg # NoRow /\ asg.variant = "haken"
                              THEN [@ EXCEPT ![asg.id] = ApplyPatch(@, asg.row,
                                       [status |-> "taisha", end_date |-> day])]
                              ELSE @,
        !.ukeoi_assignments = IF asg # NoRow /\ asg.variant = "ukeoi"
                              THEN [@ EXCEPT ![asg.id] = ApplyPatch(@, asg.row,
                                       [status |-> "taisha", end_date |-> day])]
                              ELSE @])

\* ---- authentication (api/auth.py) -------------------------------------------------
\* the refresh token strings create_refresh_token can return; 0 stands for a
\* well-formed token that is not a refresh token (an access token)
TokenValues == 1..MaxTokens

\* decode_token(token).get("type")
TokenType(t) == IF t \in TokenValues THEN "refresh" ELSE "access"

\* RefreshToken.token is `unique=True`
TokenUniqueViolation(tokens, t) == \E k \in 1..Len(tokens) : tokens[k].token = t

NewTokenRecord(t, user_id) == [token |-> t, user_id |-> user_id, revoked |-> FALSE]

\* LoginInputs: whether verify_password accepts the password, and the
\* refresh token create_refresh_token returns for this call
LoginInputs == [password_ok : BOOLEAN, new : TokenValues]

login(c) ==
    IF \/ ~Exists(c.db.users, c.loc.id)
       \/ ~c.loc.data.password_ok
       \/ ~c.db.users[c.loc.id].is_active
    THEN Raise(c, "Unauthorized")
    ELSE [Goto(c, "login_commit") EXCEPT !.loc.user = c.loc.id]

login_commit(c) ==
    IF TokenUniqueViolation(c.db.refresh_tokens, c.loc.data.new)
    THEN Raise(c, "IntegrityError")
    ELSE Committed(c, [c.db EXCEPT
             !.refresh_tokens = Append(@, NewTokenRecord(c.loc.data.new, c.loc.user))])

\* the rows `select(RefreshToken).where(token == t, revoked == False)` finds
Unrevoked(tokens, t) ==
    {k \in 1..Len(tokens) : tokens[k].token = t /\ ~tokens[k].revoked}

\* RefreshInputs: the refresh token create_refresh_token returns for this call
RefreshInputs == [new : TokenValues]

refresh_token(c) ==
    IF TokenType(c.loc.id) # "refresh"
    THEN Raise(c, "Unauthorized")
    ELSE LET found == Unrevoked(c.db.refresh_tokens, c.loc.id) IN
         IF found = {}
         THEN Raise(c, "Unauthorized")
         ELSE LET k == CHOOSE x \in found : TRUE IN
              [Goto(c, "refresh_token_user") EXCEPT
                  !.loc.num = k, !.loc.obj = c.db.refresh_tokens[k]]

\* the token's subject is the user the token was issued to
refresh_token_user(c) ==
    LET u == c.loc.obj.user_id IN
    IF ~Exists(c.db.users, u) \/ ~c.db.users[u].is_active
    THEN Raise(c, "Unauthorized")
    ELSE [Goto(c, "refresh_token_commit") EXCEPT !.loc.user = u]

refresh_token_commit(c) ==
    LET l == c.loc IN
    IF TokenUniqueViolation(c.db.refresh_tokens, l.data.new)
    THEN Raise(c, "IntegrityError")
    ELSE Committed(c, [c.db EXCEPT
             !.refresh_tokens = Append([@ EXCEPT ![l.num] = ApplyPatch(@, l.obj, [revoked |-> TRUE])],
                                       NewTokenRecord(l.data.new, l.user))])

\* ---- running a request ---------------------------------------------------------
\* the step a session at label c.pc executes next
Exec(c) ==
    CASE c.pc = "create_candidate" -> create_candidate(c)
      [] c.pc = "create_apartment" -> create_apartment(c)
      [] c.pc = "update_candidate" -> update_candidate(c)
      [] c.pc = "update_candidate_commit" -> update_candidate_commit(c)
      [] c.pc = "create_application" -> create_application(c)
      [] c.pc = "create_application_commit" -> create_application_commit(c)
      [] c.pc = "record_result" -> record_result(c)
      [] c.pc = "record_result_cand" -> record_result_cand(c)
      [] c.pc = "record_result_commit" -> record_result_commit(c)
      [] c.pc = "create_joining_notice" -> create_joining_notice(c)
      [] c.pc = "create_joining_notice_app" -> create_joining_notice_app(c)
      [] c.pc = "create_joining_notice_commit" -> create_joining_notice_commit(c)
      [] c.pc = "update_joining_notice" -> update_joining_notice(c)
      [] c.pc = "update_joining_notice_commit" -> update_joining_notice_commit(c)
      [] c.pc = "submit_for_approval" -> submit_for_approval(c)
      [] c.pc = "submit_for_approval_commit" -> submit_for_approval_commit(c)
      [] c.pc = "reject_joining_notice" -> reject_joining_notice(c)
      [] c.pc = "reject_joining_notice_commit" -> reject_joining_notice_commit(c)
      [] c.pc = "approve_joining_notice" -> approve_joining_notice(c)
      [] c.pc = "approve_joining_notice_max" -> approve_joining_notice_max(c)
      [] c.pc = "approve_joining_notice_flush" -> approve_joining_notice_flush(c)
      [] c.pc = "approve_joining_notice_cand" -> approve_joining_notice_cand(c)
      [] c.pc = "approve_joining_notice_commit" -> approve_joining_notice_commit(c)
      [] c.pc = "update_employee" -> update_employee(c)
      [] c.pc = "update_employee_commit" -> update_employee_commit(c)
      [] c.pc = "terminate_employee" -> terminate_employee(c)
      [] c.pc = "terminate_employee_commit" -> terminate_employee_commit(c)
      [] c.pc = "login" -> login(c)
      [] c.pc = "login_commit" -> login_commit(c)
      [] c.pc = "refresh_token" -> refresh_token(c)
      [] c.pc = "refresh_token_user" -> refresh_token_user(c)
      [] c.pc = "refresh_token_commit" -> refresh_token_commit(c)

RECURSIVE Run(_)
\* a request served without interference: its steps up to the response
Run(c) == IF c.pc = "resp" THEN c ELSE Run(Exec(c))

\* the request `op` with id i and body d, served on the store db
Handle(db, op, i, d) == Run([pc |-> op, loc |-> Start(op, i, d), db |-> db])

Install(d) ==
    /\ candidates' = d.candidates
    /\ applications' = d.applications
    /\ notices' = d.notices
    /\ employees' = d.employees
    /\ haken_assignments' = d.haken_assignments
    /\ ukeoi_assignments' = d.ukeoi_assignments
    /\ apartments' = d.apartments
    /\ users' = d.users
    /\ refresh_tokens' = d.refresh_tokens

\* the committed store is d
Installed(d) ==
    /\ candidates = d.candidates
    /\ applications = d.applications
    /\ notices = d.notices
    /\ employees = d.employees
    /\ haken_assignments = d.haken_assignments
    /\ ukeoi_assignments = d.ukeoi_assignments
    /\ apartments = d.apartments
    /\ users = d.users
    /\ refresh_tokens = d.refresh_tokens

\* the database after init_db: every table is empty
Init ==
    /\ Installed(EmptyDB)
    /\ pc = [p \in Procs |-> "idle"]
    /\ loc = [p \in Procs |-> IdleLoc]

\* ---- requests served one after the other ------------------------------------
Serve(op, i, d) ==
    /\ \E r \in {Handle(DB, op, i, d)} : Install(r.db)
    /\ UNCHANGED <<pc, loc>>

CreateCandidate ==
    /\ Len(candidates) < MaxCandidates
    /\ Serve("create_candidate", Len(candidates) + 1, None)

UpdateCandidate ==
    \E i \in 1..(Len(candidates) + 1), d \in CandidateUpdateInputs :
        Serve("update_candidate", i, d)

CreateApartment ==
    /\ Len(apartments) < MaxApartments
    /\ \E d \in ApartmentInputs : Serve("create_apartment", Len(apartments) + 1, d)

CreateApplication ==
    /\ Len(applications) < MaxApplications
    /\ \E i \in 1..(Len(candidates) + 1) : Serve("create_application", i, None)

RecordResult ==
    \E i \in 1..(Len(applications) + 1), d \in ResultInputs : Serve("record_result", i, d)

NoticeCreateInputs ==
    [application_id : 0..(Len(applications) + 1), content : NoticeInputs]

CreateJoiningNotice ==
    /\ Len(notices) < MaxNotices
    /\ \E i \in 1..(Len(candidates) + 1), d \in NoticeCreateInputs :
         Serve("create_joining_notice", i, d)

UpdateJoiningNotice ==
    \E i \in 1..(Len(notices) + 1), d \in UpdateInputs : Serve("update_joining_notice", i, d)

SubmitForApproval ==
    \E i \in 1..(Len(notices) + 1) : Serve("submit_for_approval", i, None)

ApproveJoiningNotice ==
    /\ Len(employees) < MaxEmployees
    /\ \E i \in 1..(Len(notices) + 1) : Serve("approve_joining_notice", i, None)

RejectJoiningNotice ==
    \E i \in 1..(Len(notices) + 1) : Serve("reject_joining_notice", i, "reason")

Next ==
    \/ CreateCandidate
    \/ UpdateCandidate
    \/ CreateApplication
    \/ RecordResult
    \/ CreateJoiningNotice
    \/ UpdateJoiningNotice
    \/ SubmitForApproval
    \/ ApproveJoiningNotice
    \/ RejectJoiningNotice

Spec == Init /\ [][Next]_vars

\* ---- company housing -------------------------------------------------------------
\* the workflow served one request at a time, with apartments and notices
\* that ask for company housing
CreateHousingNotice ==
    /\ Len(notices) < MaxNotices
    /\ \E i \in 1..Len(candidates), a \in 0..Len(applications), k \in HousingInputs :
         Serve("create_joining_notice", i, [application_id |-> a, content |-> k])

NextHousing ==
    \/ CreateCandidate
    \/ CreateApartment
    \/ CreateApplication
    \/ RecordResult
    \/ CreateHousingNotice
    \/ SubmitForApproval
    \/ ApproveJoiningNotice
    \/ RejectJoiningNotice

SpecHousing == Init /\ [][NextHousing]_vars

\* ---- concurrent requests --------------------------------------------------------
\* a worker takes a request when it has none in progress
Ready(p) == pc[p] \in {"idle", "resp"}

\* SQLite (config.py DATABASE_URL default): the session that has flushed its
\* INSERT holds the database write lock until it commits; other sessions
\* can still read, a statement of theirs that writes waits for the lock.
HoldsWriteLock(q) == pc[q] \in {"approve_joining_notice_cand", "approve_joining_notice_commit"}

Locked(p) == \E q \in Procs \ {p} : HoldsWriteLock(q)

\* the steps at which a session sends DML and needs the write lock
WritePoints == {"update_joining_notice_commit", "submit_for_approval_commit",
                "reject_joining_notice_commit", "approve_joining_notice_flush"}

Session(p) == [pc |-> pc[p], loc |-> loc[p], db |-> DB]

Apply(p, r) ==
    /\ pc' = [pc EXCEPT ![p] = r.pc]
    /\ loc' = [loc EXCEPT ![p] = r.loc]
    /\ Install(r.db)

\* the request arrives and its handler runs to its first await
Begin(p, op, i, d) ==
    /\ Ready(p)
    /\ \E r \in {Exec([pc |-> op, loc |-> Start(op, i, d), db |-> DB])} : Apply(p, r)

\* the handler of p resumes and runs to its next await
Resume(p) ==
    /\ pc[p] \in WritePoints => ~Locked(p)
    /\ \E r \in {Exec(Session(p))} : Apply(p, r)

\* SQLite gives up waiting for the write lock another session holds
\* ("database is locked"): the statement raises, get_db rolls the session
\* back and the request fails
store_busy(p) ==
    /\ pc[p] \in WritePoints
    /\ Locked(p)
    /\ Apply(p, Raise(Session(p), "StoreError"))

\* requests on the notices of the store (a missing id is served as in Spec:
\* refused at the first read)
UpdateRequest(p) ==
    \E i \in 1..Len(notices), d \in UpdateInputs : Begin(p, "update_joining_notice", i, d)

SubmitRequest(p) ==
    \E i \in 1..Len(notices) : Begin(p, "submit_for_approval", i, None)

RejectRequest(p) ==
    \E i \in 1..Len(notices) : Begin(p, "reject_joining_notice", i, "reason")

ApproveRequest(p) ==
    /\ Len(employees) < MaxEmployees
    /\ \E i \in 1..Len(notices) : Begin(p, "approve_joining_notice", i, None)

UpdateCommit(p) ==
    /\ pc[p] = "update_joining_notice_commit"
    /\ Resume(p)

SubmitCommit(p) ==
    /\ pc[p] = "submit_for_approval_commit"
    /\ Resume(p)

RejectCommit(p) ==
    /\ pc[p] = "reject_joining_notice_commit"
    /\ Resume(p)

ApproveReadMax(p) ==
    /\ pc[p] = "approve_joining_notice_max"
    /\ Resume(p)

ApproveFlush(p) ==
    /\ pc[p] = "approve_joining_notice_flush"
    /\ Resume(p)

ApproveReadCandidate(p) ==
    /\ pc[p] = "approve_joining_notice_cand"
    /\ Resume(p)

ApproveCommit(p) ==
    /\ pc[p] = "approve_joining_notice_commit"
    /\ Resume(p)

\* the store after candidate j was registered, presented, accepted and given
\* a joining notice with content k (application j, notice j)
Drafted(db, j, k) ==
    LET d1 == Handle(db, "create_candidate", j, None).db
        d2 == Handle(d1, "create_application", j, None).db
        d3 == Handle(d2, "record_result", j, [status |-> "accepted", result_notes |-> "good fit"]).db
    IN Handle(d3, "create_joining_notice", j, [application_id |-> j, content |-> k]).db

RECURSIVE PendingNotices(_)
\* n candidates, each with a submitted (Pending) Haken notice, no employee
PendingNotices(n) ==
    IF n = 0 THEN EmptyDB
    ELSE Handle(Drafted(PendingNotices(n - 1), n, Content("haken", "Taro", "rental", 0, None, None)),
                "submit_for_approval", n, None).db

\* two workers serving notice requests concurrently, from a store with one
\* Draft notice
InitRace ==
    /\ \E k \in NoticeInputs : Installed(Drafted(EmptyDB, 1, k))
    /\ pc = [p \in Procs |-> "idle"]
    /\ loc = [p \in Procs |-> IdleLoc]

NextRace ==
    \E p \in Workers :
        \/ UpdateRequest(p)
        \/ UpdateCommit(p)
        \/ SubmitRequest(p)
        \/ SubmitCommit(p)
        \/ RejectRequest(p)
        \/ RejectCommit(p)
        \/ ApproveRequest(p)
        \/ ApproveReadMax(p)
        \/ ApproveFlush(p)
        \/ ApproveReadCandidate(p)
        \/ ApproveCommit(p)
        \/ store_busy(p)

SpecRace == InitRace /\ [][NextRace]_vars

\* NumApprovers managers each approve their own Pending notice, once, at the
\* same time, starting with no employees; a session waits for the write lock
\* as long as it takes
InitApprove ==
    /\ Installed(PendingNotices(NumApprovers))
    /\ pc = [p \in Procs |-> "idle"]
    /\ loc = [p \in Procs |-> IdleLoc]

ApproveOnce(p) ==
    /\ pc[p] = "idle"
    /\ Begin(p, "approve_joining_notice", p, None)

NextApprove ==
    \E p \in Approvers :
        \/ ApproveOnce(p)
        \/ ApproveReadMax(p)
        \/ ApproveFlush(p)
        \/ ApproveReadCandidate(p)
        \/ ApproveCommit(p)

SpecApprove == InitApprove /\ [][NextApprove]_vars

\* ---- employees after approval ------------------------------------------------------
\* JoiningNoticeCreate bodies that pass the submit validation
CompleteNotices == {Content("haken", "Taro", "rental", 0, None, None),
                    Content("ukeoi", "Taro", "own", 0, "Taro", "1234567")}

\* the store after candidate j went through the workflow up to a submitted
\* (Pending) notice with content k
Submitted(db, j, k) == Handle(Drafted(db, j, k), "submit_for_approval", j, None).db

\* two candidates with a Pending notice each, no employee yet
InitEmployee ==
    /\ \E k1 \in CompleteNotices, k2 \in CompleteNotices :
          Installed(Submitted(Submitted(EmptyDB, 1, k1), 2, k2))
    /\ pc = [p \in Procs |-> "idle"]
    /\ loc = [p \in Procs |-> IdleLoc]

UpdateEmployee ==
    \E i \in 1..(Len(employees) + 1), d \in EmployeeUpdateInputs : Serve("update_employee", i, d)

TerminateEmployee ==
    \E i \in 1..(Len(employees) + 1), d \in TerminationInputs : Serve("terminate_employee", i, d)

NextEmployee ==
    \/ ApproveJoiningNotice
    \/ UpdateEmployee
    \/ TerminateEmployee

SpecEmployee == InitEmployee /\ [][NextEmployee]_vars

\* ---- concurrent notice creation -------------------------------------------------
\* the store after candidate j was registered, presented and accepted
\* (application j)
AcceptedCandidate(db, j) ==
    LET d1 == Handle(db, "create_candidate", j, None).db
        d2 == Handle(d1, "create_application", j, None).db
    IN Handle(d2, "record_result", j, [status |-> "accepted", result_notes |-> "good fit"]).db

\* workers creating joining notices concurrently for one Accepted candidate
InitCreate ==
    /\ Installed(AcceptedCandidate(EmptyDB, 1))
    /\ pc = [p \in Procs |-> "idle"]
    /\ loc = [p \in Procs |-> IdleLoc]

CreateNoticeRequest(p) ==
    \E i \in 1..Len(candidates),
       d \in [application_id : 0..Len(applications), content : NoticeInputs] :
        Begin(p, "create_joining_notice", i, d)

CreateNoticeReadApplication(p) ==
    /\ pc[p] = "create_joining_notice_app"
    /\ Resume(p)

CreateNoticeCommit(p) ==
    /\ pc[p] = "create_joining_notice_commit"
    /\ Resume(p)

NextCreate ==
    \E p \in Workers :
        \/ CreateNoticeRequest(p)
        \/ CreateNoticeReadApplication(p)
        \/ CreateNoticeCommit(p)

SpecCreate == InitCreate /\ [][NextCreate]_vars

\* ---- notices for two candidates ---------------------------------------------------
\* two Accepted candidates, each with its own Accepted application, no notice
InitPairing ==
    /\ Installed(AcceptedCandidate(AcceptedCandidate(EmptyDB, 1), 2))
    /\ pc = [p \in Procs |-> "idle"]
    /\ loc = [p \in Procs |-> IdleLoc]

NextPairing ==
    \/ CreateJoiningNotice
    \/ UpdateJoiningNotice
    \/ SubmitForApproval
    \/ RejectJoiningNotice

SpecPairing == InitPairing /\ [][NextPairing]_vars

\* ---- concurrent token refresh ------------------------------------------------------
\* one active user who has logged in once: one stored refresh token
InitRefresh ==
    /\ \E t \in TokenValues :
          Installed(Handle([EmptyDB EXCEPT !.users = <<[username |-> "staff", is_active |-> TRUE]>>],
                           "login", 1, [password_ok |-> TRUE, new |-> t]).db)
    /\ pc = [p \in Procs |-> "idle"]
    /\ loc = [p \in Procs |-> IdleLoc]

LoginRequest(p) ==
    /\ Ready(p)
    /\ \E u \in 1..Len(users), d \in LoginInputs : Begin(p, "login", u, d)

LoginCommit(p) ==
    /\ pc[p] = "login_commit"
    /\ Resume(p)

RefreshRequest(p) ==
    /\ Ready(p)
    /\ \E t \in 0..MaxTokens, d \in RefreshInputs : Begin(p, "refresh_token", t, d)

RefreshReadUser(p) ==
    /\ pc[p] = "refresh_token_user"
    /\ Resume(p)

RefreshCommit(p) ==
    /\ pc[p] = "refresh_token_commit"
    /\ Resume(p)

NextRefresh ==
    \E p \in Workers :
        \/ LoginRequest(p)
        \/ LoginCommit(p)
        \/ RefreshRequest(p)
        \/ RefreshReadUser(p)
        \/ RefreshCommit(p)

SpecRefresh == InitRefresh /\ [][NextRefresh]_vars

\* ---- properties ------------------------------------------------------------------
EmployeesOf(candidate_id) ==
    {e \in 1..Len(employees) : employees[e].candidate_id = candidate_id}

HakenOf(e) == {a \in 1..Len(haken_assignments) : haken_assignments[a].employee_id = e}

UkeoiOf(e) == {a \in 1..Len(ukeoi_assignments) : ukeoi_assignments[a].employee_id = e}

\* the employee e has exactly one assignment, of the variant of type t
OneAssignment(e, t) ==
    /\ Cardinality(HakenOf(e)) = (IF t = "haken" THEN 1 ELSE 0)
    /\ Cardinality(UkeoiOf(e)) = (IF t = "ukeoi" THEN 1 ELSE 0)

\* C1: for every Approved notice there is exactly one Employee with the
\* notice's candidate_id, and that Employee has exactly one Assignment, of the
\* variant of the notice's employment_type.
C1_OneEmployeePerApprovedNotice ==
    \A n \in 1..Len(notices) :
        notices[n].status = "approved" =>
            /\ Cardinality(EmployeesOf(notices[n].candidate_id)) = 1
            /\ \A e \in EmployeesOf(notices[n].candidate_id) :
                   OneAssignment(e, notices[n].employment_type)

\* C2: no two committed Employee rows have the same employee_number.
C2_EmployeeNumberUnique ==
    \A e1, e2 \in 1..Len(employees) :
        employees[e1].employee_number = employees[e2].employee_number => e1 = e2

\* C2 witness: concurrent approvals overlapped (one lost the race for a
\* number) and two employees are committed.
C2_Witness ==
    /\ Len(employees) >= 2
    /\ \E p \in Procs : pc[p] = "resp" /\ loc[p].result = "IntegrityError"

EmployeeNumbers == {employees[e].employee_number : e \in 1..Len(employees)}

\* C3: when the NumApprovers concurrent approve calls on distinct Pending
\* notices have all returned, every one of them has succeeded and the
\* employee numbers are exactly 1..NumApprovers.
C3_AllConcurrentApprovalsSucceed ==
    (\A p \in Approvers : pc[p] = "resp") =>
        /\ \A p \in Approvers : loc[p].result = "ok"
        /\ EmployeeNumbers = 1..NumApprovers
        /\ Len(employees) = NumApprovers

\* the request of p returned in this step
Returns(p) == pc'[p] = "resp" /\ <<pc[p], loc[p]>> # <<pc'[p], loc'[p]>>

\* no partial result of approve is in the store
NoPartialApprove ==
    /\ \A e \in 1..Len(employees) :
           Cardinality(HakenOf(e)) + Cardinality(UkeoiOf(e)) = 1
    /\ \A n \in 1..Len(notices) :
           notices[n].status = "approved" =>
               \E e \in 1..Len(employees) : employees[e].joining_notice_id = n

\* a step that makes an Employee visible makes the rest of approve visible too
ApproveVisibleAtOnce ==
    Len(employees') # Len(employees) =>
        /\ Len(employees') = Len(employees) + 1
        /\ LET e == employees'[Len(employees')] IN
           /\ notices'[e.joining_notice_id].status = "approved"
           /\ candidates'[e.candidate_id].status = "hired"

\* what the commit of approve writes is visible all at once, in every
\* interleaving
ApproveCommitAtomic == [][ApproveVisibleAtOnce /\ NoPartialApprove']_vars

\* C4: approve is atomic: no state that another request can observe has an
\* Employee without its Assignment, an Employee whose originating notice is
\* Pending, or an Approved notice without its Employee.
C4_NoPartialApproveObservable ==
    /\ NoPartialApprove
    /\ \A e \in 1..Len(employees) :
           notices[employees[e].joining_notice_id].status # "pending"

CandidateEdges ==
    {<<"registered", "presented">>, <<"rejected", "presented">>,
     <<"presented", "accepted">>, <<"presented", "rejected">>,
     <<"accepted", "processing">>, <<"processing", "hired">>}

\* C5: every change of a Candidate's status is an edge of the diagram;
\* Hired is never left.
C5_CandidateEdgesOnly ==
    [][\A i \in 1..Len(candidates) :
           candidates'[i].status # candidates[i].status =>
               <<candidates[i].status, candidates'[i].status>> \in CandidateEdges]_vars

\* C6: a candidate is Hired only through an approve (which leaves an Employee
\* of the candidate), and no two Employees have the same candidate_id.
C6_OneHirePerCandidate ==
    /\ \A i \in 1..Len(candidates) :
           candidates[i].status = "hired" => EmployeesOf(i) # {}
    /\ \A i \in 1..Len(candidates) : Cardinality(EmployeesOf(i)) <= 1

\* C7: once a notice has left Draft its content fields never change, and an
\* update that finds it so never succeeds, whatever the interleaving.
C7_ImmutableAfterDraft ==
    [][\A n \in 1..Len(notices) :
           notices[n].status # "draft" =>
               /\ \A f \in ContentFields : notices'[n][f] = notices[n][f]
               /\ \A p \in Workers :
                      Returns(p) /\ loc'[p].op = "update_joining_notice" /\ loc'[p].id = n
                          => loc'[p].result # "ok"]_vars

\* a request that raises while it is interleaved with others leaves the store
\* as it was (get_db rolls the session back)
RaisedErrorLeavesNoChange ==
    [][\A p \in Workers : Returns(p) /\ loc'[p].result # "ok" => store' = store]_vars

\* the requests of the sequential model, as <<operation, id, input>>
Requests ==
    LET ids == 0..(MaxNotices + 1) IN
    ({"create_candidate"} \X {0} \X {None})
    \cup ({"update_candidate"} \X ids \X CandidateUpdateInputs)
    \cup ({"create_application"} \X ids \X {None})
    \cup ({"record_result"} \X ids \X ResultInputs)
    \cup ({"create_joining_notice"} \X ids \X [application_id : ids, content : NoticeInputs])
    \cup ({"update_joining_notice"} \X ids \X UpdateInputs)
    \cup ({"submit_for_approval", "approve_joining_notice", "reject_joining_notice"}
            \X ids \X {None})

\* C8: a workflow operation that fails leaves every Candidate, Application,
\* JoiningNotice, Employee and Assignment as it was: whatever request
\* arrives next, if it fails the store it leaves is the store it found.
C8_FailureLeavesNoChange ==
    \A r \in Requests :
        LET h == Handle(DB, r[1], r[2], r[3]) IN h.loc.result # "ok" => h.db = DB

\* C9: an approve reports the conflict on employee_number only if a retry
\* with a fresh read conflicts too: when it has returned the failure, running
\* the same approve again on the store as it is now does not succeed either.
C9_FailsOnlyIfRetryFails ==
    \A p \in Approvers :
        pc[p] = "resp" /\ loc[p].result = "IntegrityError" =>
            Handle(DB, "approve_joining_notice", loc[p].id, None).loc.result # "ok"

\* C10: present succeeds exactly on a candidate that is Registered or
\* Rejected, then adds one Pending Application and makes the candidate
\* Presented; on any other candidate it is refused and changes nothing.
C10_PresentPrecondition ==
    \A i \in 1..Len(candidates) :
        LET h == Handle(DB, "create_application", i, None) IN
        IF candidates[i].status \in {"registered", "rejected"}
        THEN /\ h.loc.result = "ok"
             /\ h.db.applications =
                    Append(applications, [candidate_id |-> i, status |-> "pending",
                                          result_at |-> FALSE, result_notes |-> None])
             /\ h.db.candidates[i].status = "presented"
        ELSE h.loc.result # "ok" /\ h.db = DB

\* C11: after a successful recordResult the Application has the outcome as
\* status, which is Accepted or Rejected, result_at is set, result_notes are
\* the given notes, and its Candidate has the same outcome as status.
C11_RecordResultEffect ==
    \A a \in 1..Len(applications), d \in ResultInputs :
        LET h == Handle(DB, "record_result", a, d)
            cand == applications[a].candidate_id IN
        h.loc.result = "ok" =>
            /\ d.status \in {"accepted", "rejected"}
            /\ h.db.applications[a].status = d.status
            /\ h.db.applications[a].result_at
            /\ h.db.applications[a].result_notes = d.result_notes
            /\ h.db.candidates[cand].status = d.status

\* C12: recordResult on an Application that is not Pending fails with
\* InvalidState and changes nothing; and after a successful recordResult a
\* further recordResult on the same application fails and changes nothing.
C12_ResultRecordedOnce ==
    \A a \in 1..Len(applications), d1 \in ResultInputs :
        LET h1 == Handle(DB, "record_result", a, d1) IN
        /\ applications[a].status # "pending" =>
               h1.loc.result = "InvalidState" /\ h1.db = DB
        /\ h1.loc.result = "ok" =>
               \A d2 \in ResultInputs :
                   LET h2 == Handle(h1.db, "record_result", a, d2) IN
                   h2.loc.result = "InvalidState" /\ h2.db = h1.db

\* C13: create(notice) succeeds only if the Candidate is Accepted and the
\* Application it names, if any, exists and is Accepted; then the new notice
\* is a Draft and the Candidate becomes Processing in the same step; a
\* failing create adds no notice and leaves the candidate's status.
C13_CreateNoticePrecondition ==
    \A i \in 1..Len(candidates), d \in NoticeCreateInputs :
        LET h == Handle(DB, "create_joining_notice", i, d) IN
        IF h.loc.result = "ok"
        THEN /\ candidates[i].status = "accepted"
             /\ d.application_id # 0 =>
                    /\ Exists(applications, d.application_id)
                    /\ applications[d.application_id].status = "accepted"
             /\ Len(h.db.notices) = Len(notices) + 1
             /\ SubSeq(h.db.notices, 1, Len(notices)) = notices
             /\ LET n == h.db.notices[Len(h.db.notices)] IN
                /\ n.status = "draft"
                /\ n.candidate_id = i
                /\ n.application_id = d.application_id
                /\ \A f \in ContentFields : n[f] = d.content[f]
             /\ h.db.candidates[i].status = "processing"
        ELSE h.db = DB

\* C13 witness: a Draft notice that names an application was created and
\* its candidate is Processing.
C13_Witness ==
    \E n \in 1..Len(notices) :
        /\ notices[n].status = "draft"
        /\ notices[n].application_id # 0
        /\ candidates[notices[n].candidate_id].status = "processing"

\* C14: of two submits of the same notice the first (on a valid Draft) sets
\* Pending and submitted_at, and the second fails with InvalidState and
\* leaves the notice as the first left it.
C14_SubmitTwice ==
    \A n \in 1..Len(notices) :
        LET h1 == Handle(DB, "submit_for_approval", n, None) IN
        h1.loc.result = "ok" =>
            /\ notices[n].status = "draft"
            /\ h1.db.notices[n].status = "pending"
            /\ h1.db.notices[n].submitted_at
            /\ LET h2 == Handle(h1.db, "submit_for_approval", n, None) IN
               h2.loc.result = "InvalidState" /\ h2.db = h1.db

\* C14 witness: a valid Draft is in the store next to a notice whose submit
\* has succeeded.
C14_Witness ==
    \E n, m \in 1..Len(notices) :
        /\ notices[n].status = "pending" /\ notices[n].submitted_at
        /\ notices[m].status = "draft" /\ SubmitValidation(notices[m]) = "ok"

BankingPresent(n) == ~Missing(n.bank_account_name) /\ ~Missing(n.account_number)

\* C15: submit of an Ukeoi Draft that lacks bank_account_name or
\* account_number fails with ValidationFailed and leaves it a Draft; and
\* every Ukeoi notice that is Pending or Approved has both fields.
C15_UkeoiBanking ==
    \A n \in 1..Len(notices) :
        notices[n].employment_type = "ukeoi" =>
            /\ notices[n].status = "draft" /\ ~BankingPresent(notices[n]) =>
                   LET h == Handle(DB, "submit_for_approval", n, None) IN
                   h.loc.result = "ValidationFailed" /\ h.db = DB
            /\ notices[n].status \in {"pending", "approved"} => BankingPresent(notices[n])

\* the apartment exists and has room
HasVacancy(apts, apartment_id) ==
    /\ Exists(apts, apartment_id)
    /\ apts[apartment_id].current_occupants < apts[apartment_id].capacity

\* C16: submit of a notice with company housing is accepted only if the
\* notice references an existing apartment with current_occupants < capacity;
\* otherwise it fails and the notice stays a Draft.
C16_ShatakuNeedsVacancy ==
    \A n \in 1..Len(notices) :
        notices[n].status = "draft" /\ notices[n].housing_type = "shataku" =>
            LET h == Handle(DB, "submit_for_approval", n, None) IN
            ~HasVacancy(apartments, notices[n].apartment_id) =>
                h.loc.result # "ok" /\ h.db.notices[n].status = "draft"

\* the fields submit requires of the notice n that n lacks
MissingFields(n) ==
    {f \in {"full_name", "employment_type", "housing_type"} : Missing(n[f])}
    \cup (IF n.housing_type = "shataku" /\ MissingId(n.apartment_id)
          THEN {"apartment_id"} ELSE {})
    \cup (IF n.employment_type = "ukeoi"
          THEN {f \in {"bank_account_name", "account_number"} : Missing(n[f])} ELSE {})

\* C17: a ValidationFailed of submit identifies the missing field(s): two
\* Drafts that lack different fields are refused with different details.
C17_ValidationNamesFields ==
    \A n, m \in 1..Len(notices) :
        LET hn == Handle(DB, "submit_for_approval", n, None)
            hm == Handle(DB, "submit_for_approval", m, None) IN
        /\ hn.loc.result = "ValidationFailed"
        /\ hm.loc.result = "ValidationFailed"
        /\ MissingFields(notices[n]) # MissingFields(notices[m])
        => hn.loc.detail # hm.loc.detail

\* C18: approve succeeds only on a Pending notice; then the notice is
\* Approved with approved_at and approved_by set and its Candidate is Hired;
\* on a Draft, Approved or Rejected notice it fails with InvalidState and
\* creates no Employee and no Assignment.
C18_ApproveOnlyPending ==
    \A n \in 1..Len(notices) :
        LET h == Handle(DB, "approve_joining_notice", n, None) IN
        IF notices[n].status = "pending"
        THEN /\ h.loc.result = "ok"
             /\ h.db.notices[n].status = "approved"
             /\ h.db.notices[n].approved_at
             /\ h.db.notices[n].approved_by = current_user
             /\ h.db.candidates[notices[n].candidate_id].status = "hired"
        ELSE h.loc.result = "InvalidState" /\ h.db = DB

\* C18 witness: an approve has succeeded, and a notice that is not Pending is
\* in the store.
C18_Witness ==
    /\ \E n \in 1..Len(notices) :
           /\ notices[n].status = "approved"
           /\ \E e \in 1..Len(employees) : employees[e].joining_notice_id = n
    /\ \E n \in 1..Len(notices) : notices[n].status \in {"draft", "rejected"}

\* C19: reject succeeds only on a Pending notice; it sets Rejected, the
\* rejection_reason and approved_by, and changes nothing else: not the
\* Candidate, no Application, no Employee, no Assignment.
C19_RejectFrame ==
    \A n \in 1..Len(notices) :
        LET h == Handle(DB, "reject_joining_notice", n, "reason") IN
        IF notices[n].status = "pending"
        THEN /\ h.loc.result = "ok"
             /\ h.db = [DB EXCEPT !.notices[n] =
                           [@ EXCEPT !.status = "rejected", !.rejection_reason = "reason",
                                     !.approved_by = current_user]]
        ELSE h.loc.result = "InvalidState" /\ h.db = DB

\* C19 witness: a notice was rejected and its candidate is still Processing.
C19_Witness ==
    \E n \in 1..Len(notices) :
        /\ notices[n].status = "rejected"
        /\ notices[n].rejection_reason = "reason"
        /\ candidates[notices[n].candidate_id].status = "processing"

NoticeEdges ==
    {<<"draft", "pending">>, <<"pending", "approved">>, <<"pending", "rejected">>}

\* C20: the only status changes of a JoiningNotice are Draft->Pending,
\* Pending->Approved and Pending->Rejected; the status of an Approved or
\* Rejected notice never changes again.
C20_NoticeEdgesOnly ==
    [][\A n \in 1..Len(notices) :
           notices'[n].status # notices[n].status =>
               <<notices[n].status, notices'[n].status>> \in NoticeEdges]_vars

\* C21: an Employee created by approve has the employment_type of its
\* joining notice and, after any later update or termination, exactly the
\* assignment of that variant: Haken employees a HakenAssignment and no
\* UkeoiAssignment, Ukeoi employees the reverse; the variant never changes.
VariantMatches ==
    \A e \in 1..Len(employees) :
        /\ employees[e].employment_type = notices[employees[e].joining_notice_id].employment_type
        /\ OneAssignment(e, employees[e].employment_type)

VariantKept ==
    \A e \in 1..Len(employees) :
        /\ employees'[e].employment_type = employees[e].employment_type
        /\ HakenOf(e) = {a \in 1..Len(haken_assignments') : haken_assignments'[a].employee_id = e}
        /\ UkeoiOf(e) = {a \in 1..Len(ukeoi_assignments') : ukeoi_assignments'[a].employee_id = e}

C21_AssignmentVariantFixed == []VariantMatches /\ [][VariantKept]_vars

\* an Ukeoi employee that was terminated and a Haken employee that was edited
C21_Witness ==
    \E e, f \in 1..Len(employees) :
        /\ employees[e].employment_type = "ukeoi" /\ employees[e].status = "taisha"
        /\ \E a \in UkeoiOf(e) : ukeoi_assignments[a].status = "taisha"
        /\ employees[f].employment_type = "haken" /\ employees[f].status = "kyushoku"

\* C22: the number an approve allocates is one more than the largest
\* employee number committed when it reads them, or 1 when there is no
\* employee; an Employee that is committed has a number strictly greater than
\* that of every Employee committed before it.
AllocatesMaxPlusOne ==
    \A p \in Procs :
        pc[p] = "approve_joining_notice_max" /\ pc'[p] = "approve_joining_notice_flush" =>
            /\ \A e \in 1..Len(employees) : employees[e].employee_number < loc'[p].num
            /\ IF Len(employees) = 0 THEN loc'[p].num = 1
               ELSE \E e \in 1..Len(employees) : employees[e].employee_number + 1 = loc'[p].num

NumbersIncrease ==
    \A e \in 1..Len(employees') :
        e > Len(employees) =>
            \A f \in 1..Len(employees) : employees'[e].employee_number > employees[f].employee_number

C22_NumberIsMaxPlusOne == [][AllocatesMaxPlusOne /\ NumbersIncrease]_vars

\* an approve read the numbers when employee 1 was committed, was given 2
\* and committed its Employee
C22_Witness ==
    /\ Len(employees) = 2
    /\ employees[1].employee_number = 1
    /\ employees[2].employee_number = 2

\* C23: from a Registered candidate and no employees, present, record the
\* result Accepted, create a Haken notice with rental housing, submit and
\* approve all succeed; the candidate goes Presented, Accepted, Processing,
\* Hired, the notice Draft, Pending, Approved, and the store ends with exactly
\* one Employee, numbered 1, and one HakenAssignment that references it.
C23_HappyPath ==
    \A cid \in 1..Len(candidates) :
        candidates[cid].status = "registered" /\ Len(employees) = 0 =>
            LET a1 == Len(applications) + 1
                n1 == Len(notices) + 1
                h1 == Handle(DB, "create_application", cid, None)
                h2 == Handle(h1.db, "record_result", a1,
                             [status |-> "accepted", result_notes |-> "good fit"])
                h3 == Handle(h2.db, "create_joining_notice", cid,
                             [application_id |-> a1,
                              content |-> Content("haken", "Taro", "rental", 0, None, None)])
                h4 == Handle(h3.db, "submit_for_approval", n1, None)
                h5 == Handle(h4.db, "approve_joining_notice", n1, None) IN
            /\ \A h \in {h1, h2, h3, h4, h5} : h.loc.result = "ok"
            /\ h1.db.candidates[cid].status = "presented"
            /\ h2.db.candidates[cid].status = "accepted"
            /\ h3.db.candidates[cid].status = "processing"
            /\ h3.db.notices[n1].status = "draft"
            /\ h4.db.notices[n1].status = "pending"
            /\ h5.db.notices[n1].status = "approved"
            /\ h5.db.candidates[cid].status = "hired"
            /\ Len(h5.db.employees) = 1
            /\ h5.db.employees[1].employee_number = 1
            /\ h5.db.employees[1].candidate_id = cid
            /\ Len(h5.db.haken_assignments) = 1
            /\ h5.db.haken_assignments[1].employee_id = 1
            /\ Len(h5.db.ukeoi_assignments) = 0

\* the store at the end of the happy path
C23_Witness ==
    /\ Len(applications) = 1 /\ applications[1].status = "accepted"
    /\ Len(notices) = 1 /\ notices[1].status = "approved"
    /\ notices[1].employment_type = "haken" /\ notices[1].housing_type = "rental"
    /\ notices[1].application_id = 1
    /\ candidates[1].status = "hired"
    /\ Len(employees) = 1 /\ employees[1].employee_number = 1
    /\ Len(haken_assignments) = 1 /\ haken_assignments[1].employee_id = 1

\* C24: registration sets a Candidate's status to Registered, and the
\* general candidate edit never changes the status of an existing candidate
\* (only present, record result, notice create and approve do).
C24_EditKeepsStatus ==
    /\ LET h == Handle(DB, "create_candidate", Len(candidates) + 1, None) IN
           h.db.candidates[Len(candidates) + 1].status = "registered"
    /\ \A i \in 1..Len(candidates), d \in CandidateUpdateInputs :
           Handle(DB, "update_candidate", i, d).db.candidates[i].status = candidates[i].status

\* C25: an approve and a reject of the same Pending notice that overlap never
\* both succeed, and no notice is Rejected while an Employee created from it,
\* or the Hired status its approval gave the candidate, is in the store.
C25_NoStaleTransition ==
    /\ \A p, q \in Workers :
           ~ /\ pc[p] = "resp" /\ loc[p].op = "approve_joining_notice" /\ loc[p].result = "ok"
             /\ pc[q] = "resp" /\ loc[q].op = "reject_joining_notice" /\ loc[q].result = "ok"
             /\ loc[p].id = loc[q].id
    /\ \A n \in 1..Len(notices) :
           notices[n].status = "rejected" =>
               /\ \A e \in 1..Len(employees) : employees[e].joining_notice_id # n
               /\ candidates[notices[n].candidate_id].status # "hired"

\* C26: present is not refused for a candidate that already has a Pending
\* Application: it succeeds and adds another Pending Application of the
\* candidate next to the ones there are, so a candidate with two Pending
\* Applications is reached by presenting twice.
PendingOf(apps, cid) ==
    {a \in 1..Len(apps) : apps[a].candidate_id = cid /\ apps[a].status = "pending"}

C26_PresentAddsPending ==
    \A cid \in 1..Len(candidates) :
        LET h == Handle(DB, "create_application", cid, None) IN
        /\ h.loc.result = "ok"
        /\ PendingOf(h.db.applications, cid) = PendingOf(applications, cid) \cup {Len(applications) + 1}

\* one candidate with two Pending Applications
C26_Witness ==
    \E cid \in 1..Len(candidates) : Cardinality(PendingOf(applications, cid)) = 2

\* C27: once a JoiningNotice is rejected its Candidate stays Processing and
\* no later JoiningNotice is created for that candidate.
C27_StuckAfterReject ==
    [][\A n \in 1..Len(notices) :
           LET cid == notices[n].candidate_id IN
           notices[n].status = "rejected" /\ candidates[cid].status = "processing" =>
               /\ candidates'[cid].status = "processing"
               /\ \A m \in 1..Len(notices') :
                      m > Len(notices) => notices'[m].candidate_id # cid]_vars

\* C28: a request addressed to an id that does not exist -- present or
\* notice create for an absent candidate, record result for an absent
\* application, update, submit, approve or reject of an absent notice -- fails
\* with NotFound and changes nothing.
Absent(table) == {0, Len(table) + 1}

NotFoundNoChange(op, i, d) ==
    LET h == Handle(DB, op, i, d) IN h.loc.result = "NotFound" /\ h.db = DB

C28_AbsentIdNotFound ==
    /\ \A i \in Absent(candidates) :
           /\ NotFoundNoChange("create_application", i, None)
           /\ \A d \in NoticeCreateInputs : NotFoundNoChange("create_joining_notice", i, d)
    /\ \A i \in Absent(applications), d \in ResultInputs :
           NotFoundNoChange("record_result", i, d)
    /\ \A i \in Absent(notices) :
           /\ \A d \in UpdateInputs : NotFoundNoChange("update_joining_notice", i, d)
           /\ NotFoundNoChange("submit_for_approval", i, None)
           /\ NotFoundNoChange("approve_joining_notice", i, None)
           /\ NotFoundNoChange("reject_joining_notice", i, "reason")

\* a store with a candidate, an application and a Pending notice, on which
\* requests for the ids after the last one are answered NotFound
C28_Witness ==
    /\ Len(candidates) >= 1 /\ Len(applications) >= 1
    /\ \E n \in 1..Len(notices) : notices[n].status = "pending"
    /\ Handle(DB, "create_application", Len(candidates) + 1, None).loc.result = "NotFound"
    /\ Handle(DB, "record_result", Len(applications) + 1,
              [status |-> "accepted", result_notes |-> "good fit"]).loc.result = "NotFound"
    /\ Handle(DB, "approve_joining_notice", Len(notices) + 1, None).loc.result = "NotFound"

\* C29: two approves of the same Pending notice that overlap never both
\* succeed, and at most one Employee with that joining_notice_id is ever
\* committed.
C29_OneApprovePerNotice ==
    /\ \A p, q \in Workers :
           p # q =>
               ~ /\ pc[p] = "resp" /\ loc[p].op = "approve_joining_notice" /\ loc[p].result = "ok"
                 /\ pc[q] = "resp" /\ loc[q].op = "approve_joining_notice" /\ loc[q].result = "ok"
                 /\ loc[p].id = loc[q].id
    /\ \A n \in 1..Len(notices) :
           Cardinality({e \in 1..Len(employees) : employees[e].joining_notice_id = n}) <= 1

\* C30: a Candidate never has more than one JoiningNotice in Draft or
\* Pending, also when two create requests for the same Accepted candidate
\* are interleaved.
OpenNotices(cid) ==
    {n \in 1..Len(notices) :
        notices[n].candidate_id = cid /\ notices[n].status \in {"draft", "pending"}}

C30_OneOpenNoticePerCandidate ==
    \A cid \in 1..Len(candidates) : Cardinality(OpenNotices(cid)) <= 1

\* C31: whenever a JoiningNotice is Draft or Pending, its Candidate is
\* Processing.
C31_OpenNoticeMeansProcessing ==
    \A n \in 1..Len(notices) :
        notices[n].status \in {"draft", "pending"} =>
            candidates[notices[n].candidate_id].status = "processing"

\* C32: a Candidate is Presented exactly when it has at least one Pending
\* Application.
C32_PresentedIffPending ==
    \A cid \in 1..Len(candidates) :
        candidates[cid].status = "presented" <=> PendingOf(applications, cid) # {}

\* C33: an Application's status is Pending, Accepted or Rejected, and its
\* result_at is set exactly when the status is Accepted or Rejected.
C33_ResultAtIffDecided ==
    \A a \in 1..Len(applications) :
        /\ applications[a].status \in ApplicationStatus
        /\ applications[a].result_at <=> applications[a].status \in {"accepted", "rejected"}

\* C34: a JoiningNotice's workflow fields agree with its status:
\* submitted_at is set iff the status is not Draft, approved_at iff it is
\* Approved, approved_by iff it is Approved or Rejected, rejection_reason iff
\* it is Rejected.
C34_WorkflowFieldsAgree ==
    \A n \in 1..Len(notices) :
        /\ notices[n].submitted_at <=> notices[n].status # "draft"
        /\ notices[n].approved_at <=> notices[n].status = "approved"
        /\ notices[n].approved_by # 0 <=> notices[n].status \in {"approved", "rejected"}
        /\ ~Missing(notices[n].rejection_reason) <=> notices[n].status = "rejected"

\* C35: a JoiningNotice whose application_id is set references an
\* Application of the notice's own Candidate.
C35_ApplicationOfSameCandidate ==
    \A n \in 1..Len(notices) :
        notices[n].application_id # 0 =>
            /\ Exists(applications, notices[n].application_id)
            /\ applications[notices[n].application_id].candidate_id = notices[n].candidate_id

\* C36: terminate(employee, date) sets the Employee's status to terminated
\* and its termination_date to the date, sets the status of its one
\* Assignment to terminated and the assignment's end_date to that date, and
\* changes nothing else: employee_number, employment_type, candidate_id and
\* joining_notice_id, the other employees, every Candidate, Application and
\* JoiningNotice stay as they were.
Terminated(row, day, date_field) ==
    [row EXCEPT !.status = "taisha", ![date_field] = day]

C36_TerminateEffect ==
    \A e \in 1..Len(employees), day \in {d \in TerminationInputs : fromisoformat(d) # "ValueError"} :
        LET h == Handle(DB, "terminate_employee", e, day)
            variant == employees[e].employment_type
            a == CHOOSE x \in HakenOf(e) \cup UkeoiOf(e) : TRUE IN
        /\ h.loc.result = "ok"
        /\ h.db.employees = [employees EXCEPT ![e] = Terminated(@, day, "termination_date")]
        /\ Cardinality(HakenOf(e) \cup UkeoiOf(e)) = 1
        /\ h.db.haken_assignments =
               IF variant = "haken"
               THEN [haken_assignments EXCEPT ![a] = Terminated(@, day, "end_date")]
               ELSE haken_assignments
        /\ h.db.ukeoi_assignments =
               IF variant = "ukeoi"
               THEN [ukeoi_assignments EXCEPT ![a] = Terminated(@, day, "end_date")]
               ELSE ukeoi_assignments
        /\ h.db.candidates = candidates
        /\ h.db.applications = applications
        /\ h.db.notices = notices

\* a Haken and an Ukeoi employee were both terminated: each assignment ends on
\* its employee's termination date
C36_Witness ==
    /\ \E e \in 1..Len(employees), a \in 1..Len(haken_assignments) :
           /\ haken_assignments[a].employee_id = e
           /\ employees[e].status = "taisha" /\ employees[e].termination_date # None
           /\ haken_assignments[a].status = "taisha"
           /\ haken_assignments[a].end_date = employees[e].termination_date
    /\ \E e \in 1..Len(employees), a \in 1..Len(ukeoi_assignments) :
           /\ ukeoi_assignments[a].employee_id = e
           /\ employees[e].status = "taisha" /\ employees[e].termination_date # None
           /\ ukeoi_assignments[a].status = "taisha"
           /\ ukeoi_assignments[a].end_date = employees[e].termination_date

\* C37: a refresh token is single-use: a refresh succeeds only with a token
\* that is not revoked when the refresh commits, so a token that one refresh
\* has exchanged gives no second token pair, whether the second refresh comes
\* later or overlaps the first.
RefreshSucceeds(p) ==
    /\ pc[p] = "refresh_token_commit"
    /\ pc'[p] = "resp"
    /\ loc'[p].result = "ok"

C37_RefreshTokenSingleUse ==
    [][\A p \in Workers : RefreshSucceeds(p) => ~refresh_tokens[loc[p].num].revoked]_vars

====
